---- MODULE Spec2Model ----
(***************************************************************************)
(* A model of the ingester of quickwit-ingest (ingest_v2/ingester.rs): the *)
(* shard table, the write-ahead log, persist with its replication to a     *)
(* follower, truncate and the startup sealing of the queues (init).        *)
(***************************************************************************)
EXTENDS Integers, Sequences, FiniteSets, TLC

(* ------------------------------------------------------------------ *)
(* Bounds of the model                                                  *)
(* ------------------------------------------------------------------ *)

\* Total number of operations that the environment issues in one run: the
\* persist subrequests, the misrouted persist requests, the truncate
\* subrequests that change the log, the runs of init on a running
\* ingester that change it, and the failures of a stream.
MaxOps == 2

(* ------------------------------------------------------------------ *)
(* Values                                                               *)
(* ------------------------------------------------------------------ *)

\* The ingesters of the cluster; each one is in the other's ingester pool.
Nodes == {"A", "B"}

\* The ingesters that routers send persist requests to.
Leaders == {"A"}

\* A node id that is in no ingester pool: a router may still name it as
\* the follower of a subrequest.
Outsiders == {"C"}

\* The queue ids (index_uid, source_id, shard_id) that requests name.
QueueIds == {"q1", "q2"}

\* Option<NodeId>::None, for the follower id of a subrequest or a shard.
None == "none"

\* Option<u64>: the empty set is None, {n} is Some(n).
NoOffset == {}

SomeOffset(n) == {n}

Unwrap(o) == CHOOSE n \in o : TRUE

CallIds == 1..MaxOps

\* Position: Beginning < Offset(n) < Offset(n + 1) < Eof.
Beginning == [kind |-> "Beginning", offset |-> 0]

Offset(n) == [kind |-> "Offset", offset |-> n]

Eof == [kind |-> "Eof", offset |-> 0]

PositionLeq(a, b) ==
    \/ a.kind = "Beginning"
    \/ b.kind = "Eof"
    \/ a.kind = "Offset" /\ b.kind = "Offset" /\ a.offset <= b.offset

PositionLt(a, b) == PositionLeq(a, b) /\ a # b

\* Position::as_u64: the offset of an Offset position, None otherwise.
PositionAsU64(p) == IF p.kind = "Offset" THEN SomeOffset(p.offset) ELSE NoOffset

\* Position::from(Option<u64>): what append_records returns, as a position.
PositionFromOption(o) == IF o = NoOffset THEN Beginning ELSE Offset(Unwrap(o))

(* ------------------------------------------------------------------ *)
(* Record codec: a record is the sequence of its bytes                  *)
(* ------------------------------------------------------------------ *)

\* MRecord::Doc(payload).encode() = "\0\0" ++ payload.
EncodeDoc(payload) == <<0, 0>> \o payload

\* MRecord::Commit.encode() = "\0\x01".
EncodeCommit == <<0, 1>>

\* MRecord::Eof.encode() = "\0\x02".
EncodeEof == <<0, 2>>

is_eof_mrecord(bytes) == bytes = <<0, 2>>

\* The payload of document j of subrequest i of persist call c: every
\* document of a run has its own bytes.
DocPayload(c, i, j) == <<c, i, j>>

\* DocBatchV2::docs() of the batch of subrequest i of persist call c: the
\* requests carry one document in their first subrequest and two in the
\* next, and so on in turn.
DocBatch(c, i) == [j \in 1..(1 + (i % 2)) |-> DocPayload(c, i, j)]

\* The document that the queues found at startup may hold.
OldDoc == <<9>>

(* ------------------------------------------------------------------ *)
(* The write-ahead log (MultiRecordLog) of one node: a function from the *)
(* ids of the queues it holds to the queues.                            *)
(* A queue keeps the offset of its first retained record and the        *)
(* records from there; the next offset is start + Len(recs).            *)
(* ------------------------------------------------------------------ *)

EmptyQueue == [start |-> 0, recs |-> <<>>]

NextOffset(queue) == queue.start + Len(queue.recs)

\* MultiRecordLog::current_position: the highest offset assigned, if any.
current_position(queue) ==
    IF NextOffset(queue) = 0 THEN NoOffset ELSE SomeOffset(NextOffset(queue) - 1)

\* MultiRecordLog::range(queue_id, from..): the (offset, record) pairs.
range(queue, from) ==
    LET all == [k \in 1..Len(queue.recs) |-> <<queue.start + k - 1, queue.recs[k]>>]
        skip == IF from > queue.start THEN from - queue.start ELSE 0
    IN  IF skip >= Len(all) THEN <<>> ELSE SubSeq(all, skip + 1, Len(all))

\* MultiRecordLog::append_records(queue_id, None, records): the queue after.
append_records(queue, records) == [queue EXCEPT !.recs = @ \o records]

\* What append_records returns: the offset of the last record appended.
append_records_result(queue, records) ==
    IF Len(records) = 0
    THEN NoOffset
    ELSE SomeOffset(NextOffset(queue) + Len(records) - 1)

\* MultiRecordLog::truncate(queue_id, upto): drops the records <= upto.
truncate_queue(queue, upto) ==
    LET n == Len(queue.recs)
        want == upto - queue.start + 1
        k == IF want < 0 THEN 0 ELSE IF want > n THEN n ELSE want
    IN  [start |-> queue.start + k,
         recs |-> IF k >= n THEN <<>> ELSE SubSeq(queue.recs, k + 1, n)]

\* MultiRecordLog::list_queues.
list_queues(log) == DOMAIN log

(* ------------------------------------------------------------------ *)
(* Shards                                                               *)
(* ------------------------------------------------------------------ *)

\* IngesterShard::Solo(SoloShard::new(state, position)).
SoloShard(state, position) ==
    [role |-> "Solo", peer |-> None, state |-> state, position |-> position]

\* IngesterShard::Primary(PrimaryShard::new(follower_id)).
PrimaryShard(follower_id) ==
    [role |-> "Primary", peer |-> follower_id, state |-> "Open", position |-> Beginning]

\* IngesterShard::Replica(ReplicaShard::new(leader_id)).
ReplicaShard(leader_id) ==
    [role |-> "Replica", peer |-> leader_id, state |-> "Open", position |-> Beginning]

is_closed(shard) == shard.state = "Closed"

set_replication_position_inclusive(shard, position) ==
    [shard EXCEPT !.position = position]

(* ------------------------------------------------------------------ *)
(* Startup sealing                                                      *)
(* ------------------------------------------------------------------ *)

\* A sealing that does not look at the last record.
append_eof_record_always(queue) == append_records(queue, <<EncodeEof>>)

\* append_eof_record_if_necessary: an Eof record is appended unless the
\* last record of the queue is one.
append_eof_record_if_necessary(queue) ==
    LET position == current_position(queue)
        mrecords == IF position = NoOffset THEN <<>> ELSE range(queue, Unwrap(position))
        should_append_eof_record ==
            IF position # NoOffset /\ Len(mrecords) > 0
            THEN ~is_eof_mrecord(mrecords[Len(mrecords)][2])
            ELSE TRUE
    IN  IF should_append_eof_record
        THEN append_records(queue, <<EncodeEof>>)
        ELSE queue

\* Ingester::init on the log: every queue listed is sealed.
InitLog(log) ==
    [q \in list_queues(log) |-> append_eof_record_if_necessary(log[q])]

\* An init that inserts the shards in the state Open.
InitShardsOpen(log, table) ==
    [q \in list_queues(log) \cup DOMAIN table |->
        IF q \in list_queues(log) THEN SoloShard("Open", Eof) ELSE table[q]]

\* An init that inserts the shards at the position Beginning.
InitShardsAtBeginning(log, table) ==
    [q \in list_queues(log) \cup DOMAIN table |->
        IF q \in list_queues(log) THEN SoloShard("Closed", Beginning) ELSE table[q]]

\* Ingester::init on the shard table: a closed solo shard at Eof per queue.
InitShards(log, table) ==
    [q \in list_queues(log) \cup DOMAIN table |->
        IF q \in list_queues(log) THEN SoloShard("Closed", Eof) ELSE table[q]]

\* HashMap::insert and HashMap::remove on a map kept as a function.
MapInsert(map, key, value) ==
    [k \in DOMAIN map \cup {key} |-> IF k = key THEN value ELSE map[k]]

MapRemove(map, key) == [k \in DOMAIN map \ {key} |-> map[k]]

EmptyMap == [k \in {} |-> None]

(* ------------------------------------------------------------------ *)
(* State                                                                *)
(* ------------------------------------------------------------------ *)

VARIABLES
    ready,                \* node -> try_new has run init and returned the ingester
    mrecordlog,           \* node -> IngesterState::mrecordlog
    shards,               \* node -> IngesterState::shards
    replication_streams,  \* leader -> follower -> handle of the stream opened with it
    replication_tasks,    \* follower -> ids of the leaders that have a replication task
    connection,           \* leader -> follower -> "none", "open" or "broken"
    syn_stream,           \* leader -> follower -> replicate requests in flight
    ack_stream,           \* leader -> follower -> acknowledgements in flight
    state_lock,           \* node -> the persist call that holds the state write-lock
    calls,                \* persist call -> its position and local variables
    ops,                  \* number of operations issued so far
    wal_order,            \* node -> number of batches appended by persist so far
    submitted,            \* leader -> follower -> the requests submitted, in order
    sealed,               \* node -> the queue ids listed by the last init -> TRUE
                          \*   until a truncate to Eof removes the queue
    truncate_response,    \* node -> the last truncate call: its result ("none", "ok"
                          \*   or "internal") and the number of its subrequests
    open_result,          \* node -> the last open_replication_stream call: its
                          \*   result and the first message of its syn stream
    spawned_tasks,        \* follower -> the leader ids of the replication tasks
                          \*   spawned, in order
    ack_sent,             \* leader -> follower -> the kinds of the messages that the
                          \*   follower has put on the ack stream, in order
    fetch_stream          \* the fetch stream of the consumer: its fetch task and
                          \*   the frames delivered on it, in order

vars ==
    <<ready, mrecordlog, shards, replication_streams, replication_tasks, connection,
      syn_stream, ack_stream, state_lock, calls, ops, wal_order, submitted, sealed,
      truncate_response, open_result, spawned_tasks, ack_sent, fetch_stream>>

\* The value of state_lock when nobody holds the lock.
Unlocked == 0

\* Pool::get: every node has the other nodes in its ingester pool.
IngesterPool(n) == Nodes \ {n}

NoResponse == [kind |-> "none", successes |-> <<>>, failures |-> <<>>]

\* Ok(PersistResponse { successes, failures }).
OkResponse(successes, failures) ==
    [kind |-> "ok", successes |-> successes, failures |-> failures]

\* Err(IngestV2Error::Internal(..)).
InternalError == [kind |-> "internal", successes |-> <<>>, failures |-> <<>>]

\* The handler panicked: the caller gets no response.
Panicked == [kind |-> "panic", successes |-> <<>>, failures |-> <<>>]

NoSubrequest ==
    [subrequest_id |-> 0, queue_id |-> None, follower_id |-> None, doc_batch |-> <<>>]

IdleCall ==
    [pc |-> "idle", node |-> None, leader_id |-> None, commit_type |-> "Auto",
     subrequests |-> <<>>,
     current |-> NoSubrequest, replicate_subrequests |-> EmptyMap,
     persist_successes |-> <<>>, persist_failures |-> <<>>,
     replicate_futures |-> EmptyMap, broken_futures |-> {}, response |-> NoResponse]

\* The queues that a node may find in its WAL directory when it starts:
\* never appended to, emptied by a truncate, ending with a document.
BootQueues ==
    { EmptyQueue,
      [start |-> 1, recs |-> <<>>],
      [start |-> 0, recs |-> <<EncodeDoc(OldDoc)>>] }

\* The WAL directories a leader may start with: at most one old queue.
\* The other nodes start with an empty directory.
BootLogs(n) ==
    IF n \in Leaders
    THEN {EmptyMap} \cup {MapInsert(EmptyMap, "q1", queue) : queue \in BootQueues}
    ELSE {EmptyMap}

\* The first message of a syn replication stream: an Open request, or
\* nothing when the stream ends before any message.
NoMessage == [kind |-> "none", leader_id |-> None, follower_id |-> None]

OpenMessage(leader_id, follower_id) ==
    [kind |-> "open", leader_id |-> leader_id, follower_id |-> follower_id]

OpenMessages ==
    {NoMessage} \cup {OpenMessage(l, f) : l \in Nodes, f \in Nodes}

\* The consumer has not opened its fetch stream yet.
NoFetchStream ==
    [status |-> "none", node |-> None, queue_id |-> None,
     requested |-> {}, from_position_exclusive |-> Beginning, opened_at |-> 0,
     frames |-> <<>>]

\* Ingester::try_new before init: the log is opened, the maps are empty.
Init ==
    /\ ready = [n \in Nodes |-> FALSE]
    /\ mrecordlog \in [Nodes -> UNION {BootLogs(n) : n \in Nodes}]
    /\ \A n \in Nodes : mrecordlog[n] \in BootLogs(n)
    /\ shards = [n \in Nodes |-> EmptyMap]
    /\ replication_streams = [n \in Nodes |-> EmptyMap]
    /\ replication_tasks = [n \in Nodes |-> {}]
    /\ connection = [l \in Nodes |-> [f \in Nodes |-> "none"]]
    /\ syn_stream = [l \in Nodes |-> [f \in Nodes |-> <<>>]]
    /\ ack_stream = [l \in Nodes |-> [f \in Nodes |-> <<>>]]
    /\ state_lock = [n \in Nodes |-> Unlocked]
    /\ calls = [c \in CallIds |-> IdleCall]
    /\ ops = 0
    /\ wal_order = [n \in Nodes |-> 0]
    /\ submitted = [l \in Nodes |-> [f \in Nodes |-> <<>>]]
    /\ sealed = [n \in Nodes |-> EmptyMap]
    /\ truncate_response = [n \in Nodes |-> [kind |-> "none", num_subrequests |-> 0]]
    /\ open_result = [n \in Nodes |-> [kind |-> "none", message |-> NoMessage]]
    /\ spawned_tasks = [n \in Nodes |-> <<>>]
    /\ ack_sent = [l \in Nodes |-> [f \in Nodes |-> <<>>]]
    /\ fetch_stream = NoFetchStream

(* ------------------------------------------------------------------ *)
(* init                                                                 *)
(* ------------------------------------------------------------------ *)

\* Ingester::init, under the state write-lock: called by try_new, and
\* again on a running ingester.
InitRun(n) ==
    LET log == InitLog(mrecordlog[n])
        table == InitShards(mrecordlog[n], shards[n])
        free == ~ready[n] \/ (log = mrecordlog[n] /\ table = shards[n])
    IN
    /\ state_lock[n] = Unlocked
    /\ free \/ ops < MaxOps
    /\ ops' = IF free THEN ops ELSE ops + 1
    /\ mrecordlog' = [mrecordlog EXCEPT ![n] = log]
    /\ shards' = [shards EXCEPT ![n] = table]
    /\ ready' = [ready EXCEPT ![n] = TRUE]
    /\ sealed' = [sealed EXCEPT ![n] = [q \in list_queues(mrecordlog[n]) |-> TRUE]]
    /\ UNCHANGED <<fetch_stream, truncate_response, open_result, spawned_tasks, ack_sent,
                   replication_streams, replication_tasks, connection, syn_stream,
                   ack_stream, state_lock, calls, wal_order, submitted>>

(* ------------------------------------------------------------------ *)
(* persist                                                              *)
(* ------------------------------------------------------------------ *)

\* A persist that writes the Commit record before the documents.
EncodedMRecordsCommitFirst(doc_batch, force_commit) ==
    LET docs == [j \in 1..Len(doc_batch) |-> EncodeDoc(doc_batch[j])]
    IN  IF force_commit THEN <<EncodeCommit>> \o docs ELSE docs

\* The records of a subrequest: its documents in order, then a Commit
\* record when the commit type is Force.
EncodedMRecords(doc_batch, force_commit) ==
    LET docs == [j \in 1..Len(doc_batch) |-> EncodeDoc(doc_batch[j])]
    IN  IF force_commit THEN docs \o <<EncodeCommit>> ELSE docs

\* A persist that drops the write-guard after each append.
GuardDroppedAfterAppend(c) == Unlocked

\* The state write-guard that persist takes before the loop is alive
\* after every subrequest, until the replicate requests are submitted.
GuardAcrossLoop(c) == c

\* A persist that does not look at the state of the shard.
ShardIsNeverClosed(shard) == FALSE

\* shard.is_closed(), line 268: persist refuses the subrequest.
ShardIsClosed(shard) == is_closed(shard)

\* The persist call c has panicked: the guard is dropped by the unwinding.
PanicCall(call) ==
    [call EXCEPT !.pc = "done", !.response = Panicked, !.current = NoSubrequest]

\* persist, lines 266-337: the subrequest sub on the shard of its queue,
\* which is in the table. Gives the log and the table of the node and the
\* call afterwards; ticket is the rank of the append in the node's WAL.
PersistOnShard(call, sub, log, table, ticket) ==
    LET queue_id == sub.queue_id
        shard == table[queue_id]
        from_position_exclusive == shard.position
    IN  IF ShardIsClosed(shard)
        THEN [log |-> log, table |-> table, appended |-> FALSE,
              call |-> [call EXCEPT
                  !.subrequests = Append(@, sub),
                  !.persist_failures = Append(@,
                      [subrequest_id |-> sub.subrequest_id, queue_id |-> queue_id,
                       reason |-> "ShardClosed"])]]
        ELSE
        LET encoded_mrecords ==
                EncodedMRecords(sub.doc_batch, call.commit_type = "Force")
            current_position_inclusive ==
                PositionFromOption(append_records_result(log[queue_id], encoded_mrecords))
            log_after == [log EXCEPT ![queue_id] = append_records(@, encoded_mrecords)]
            table_after ==
                [table EXCEPT ![queue_id] =
                    set_replication_position_inclusive(@, current_position_inclusive)]
            replicate_subrequest ==
                [subrequest_id |-> sub.subrequest_id, queue_id |-> queue_id,
                 from_position_exclusive |-> from_position_exclusive,
                 to_position_inclusive |-> current_position_inclusive,
                 doc_batch |-> sub.doc_batch, ticket |-> ticket]
            persist_success ==
                [subrequest_id |-> sub.subrequest_id, queue_id |-> queue_id,
                 replication_position_inclusive |-> current_position_inclusive]
            group ==
                IF sub.follower_id \in DOMAIN call.replicate_subrequests
                THEN call.replicate_subrequests[sub.follower_id]
                ELSE <<>>
        IN  [log |-> log_after, table |-> table_after, appended |-> TRUE,
             call |->
                IF sub.follower_id # None
                THEN [call EXCEPT
                        !.subrequests = Append(@, sub),
                        !.replicate_subrequests =
                            MapInsert(@, sub.follower_id, Append(group, replicate_subrequest))]
                ELSE [call EXCEPT
                        !.subrequests = Append(@, sub),
                        !.persist_successes = Append(@, persist_success)]]

\* The node n takes the outcome of PersistOnShard.
ApplyPersistOnShard(c, n, outcome) ==
    /\ mrecordlog' = [mrecordlog EXCEPT ![n] = outcome.log]
    /\ shards' = [shards EXCEPT ![n] = outcome.table]
    /\ calls' = [calls EXCEPT ![c] = [outcome.call EXCEPT !.pc = "loop",
                                                          !.current = NoSubrequest]]
    /\ wal_order' = [wal_order EXCEPT ![n] = IF outcome.appended THEN @ + 1 ELSE @]
    /\ state_lock' = [state_lock EXCEPT ![n] = GuardAcrossLoop(c)]

\* A persist that serves the requests meant for another leader.
PersistRoutingNeverFails(n, leader_id) == FALSE

\* The routing check of persist, lines 235-240.
PersistRoutingError(n, leader_id) == leader_id # n

\* A persist request arrives at node n: lines 231-240.
PersistCallOn(c, n, leader_id, commit_type) ==
    /\ ready[n]
    /\ calls[c].pc = "idle"
    /\ \A d \in CallIds : d < c => calls[d].pc # "idle"
    /\ ops < MaxOps
    /\ ops' = ops + 1
    /\ calls' = [calls EXCEPT ![c] =
          IF PersistRoutingError(n, leader_id)
          THEN [IdleCall EXCEPT !.pc = "done", !.node = n, !.leader_id = leader_id,
                                !.response = InternalError]
          ELSE [IdleCall EXCEPT !.pc = "lock", !.node = n, !.leader_id = leader_id,
                                !.commit_type = commit_type]]
    /\ UNCHANGED <<fetch_stream, ready, sealed, truncate_response, open_result, spawned_tasks,
                   ack_sent, mrecordlog, shards, replication_streams, replication_tasks,
                   connection, syn_stream, ack_stream, state_lock, wal_order,
                   submitted>>

\* The routers send their persist requests to the leaders.
PersistCall(c, n, leader_id, commit_type) ==
    n \in Leaders /\ PersistCallOn(c, n, leader_id, commit_type)

\* self.state.write().await, line 241.
PersistLock(c) ==
    /\ calls[c].pc = "lock"
    /\ state_lock[calls[c].node] = Unlocked
    /\ state_lock' = [state_lock EXCEPT ![calls[c].node] = c]
    /\ calls' = [calls EXCEPT ![c].pc = "loop"]
    /\ UNCHANGED <<fetch_stream, ready, sealed, truncate_response, open_result, spawned_tasks,
                   ack_sent, mrecordlog, shards, replication_streams, replication_tasks,
                   connection, syn_stream, ack_stream, ops, wal_order, submitted>>

\* A persist that inserts the shard that the subrequest describes whether
\* the table has one or not.
InsertShard(table, queue_id, new_shard) == MapInsert(table, queue_id, new_shard)

\* state_guard.shards.get_mut(&queue_id), lines 254-256, and
\* entry.or_insert(shard) of create_shard: a shard that is in the table is
\* used as it is.
GetOrInsertShard(table, queue_id, new_shard) ==
    IF queue_id \in DOMAIN table THEN table ELSE MapInsert(table, queue_id, new_shard)

\* An init_replication_stream that opens a stream whether the leader has
\* one with the follower or not.
StreamIsAlwaysVacant(streams, follower_id) == TRUE

\* Entry::Vacant(entry) = state.replication_streams.entry(follower_id),
\* lines 186-189: the leader has no stream with the follower yet.
StreamIsVacant(streams, follower_id) == follower_id \notin DOMAIN streams

\* One turn of the loop over the subrequests, lines 251-338, with
\* create_shard (lines 147-178) when the queue has no shard. When a
\* replication stream has to be opened the call goes on in PersistOpenStream.
\* doc_batch is the batch of documents of the subrequest.
PersistSubrequestWith(c, queue_id, follower_id, doc_batch) ==
    LET n == calls[c].node
        call == calls[c]
        sub == [subrequest_id |-> Len(call.subrequests), queue_id |-> queue_id,
                follower_id |-> follower_id, doc_batch |-> doc_batch]
        log == mrecordlog[n]
        table == shards[n]
        created == MapInsert(log, queue_id, EmptyQueue)
        new_shard ==
            IF follower_id # None THEN PrimaryShard(follower_id) ELSE SoloShard("Open", Beginning)
    IN
    /\ call.pc = "loop"
    /\ follower_id # n
    /\ Len(call.subrequests) = 0 \/ ops < MaxOps
    /\ ops' = IF Len(call.subrequests) = 0 THEN ops ELSE ops + 1
    /\ IF queue_id \in DOMAIN table
       THEN ApplyPersistOnShard(c, n,
                PersistOnShard(call, sub, log, GetOrInsertShard(table, queue_id, new_shard),
                               wal_order[n]))
       ELSE IF queue_id \in DOMAIN log
       THEN \* create_queue: AlreadyExists, "queue should not exist"
            /\ calls' = [calls EXCEPT ![c] = PanicCall(call)]
            /\ state_lock' = [state_lock EXCEPT ![n] = Unlocked]
            /\ UNCHANGED <<mrecordlog, shards, wal_order>>
       ELSE IF follower_id = None \/ ~StreamIsVacant(replication_streams[n], follower_id)
       THEN ApplyPersistOnShard(c, n,
                PersistOnShard(call, sub, created, MapInsert(table, queue_id, new_shard),
                               wal_order[n]))
       ELSE IF follower_id \notin IngesterPool(n)
       THEN \* init_replication_stream: IngesterUnavailable, create_shard(..).expect
            /\ mrecordlog' = [mrecordlog EXCEPT ![n] = created]
            /\ calls' = [calls EXCEPT ![c] = PanicCall(call)]
            /\ state_lock' = [state_lock EXCEPT ![n] = Unlocked]
            /\ UNCHANGED <<shards, wal_order>>
       ELSE \* the queue is created, the stream is to be opened
            /\ mrecordlog' = [mrecordlog EXCEPT ![n] = created]
            /\ calls' = [calls EXCEPT ![c] = [call EXCEPT !.pc = "open", !.current = sub]]
            /\ UNCHANGED <<shards, wal_order, state_lock>>
    /\ UNCHANGED <<fetch_stream, ready, sealed, truncate_response, open_result, spawned_tasks,
                   ack_sent, replication_streams, replication_tasks, connection,
                   syn_stream, ack_stream, submitted>>

\* A turn of the loop for a subrequest that carries documents.
PersistSubrequest(c, queue_id, follower_id) ==
    PersistSubrequestWith(c, queue_id, follower_id, DocBatch(c, Len(calls[c].subrequests)))

\* A turn of the loop for a subrequest whose doc_batch is Some(batch) with
\* no document in it: the expect of lines 279-281 lets it pass.
PersistEmptySubrequest(c, queue_id, follower_id) ==
    PersistSubrequestWith(c, queue_id, follower_id, <<>>)

(* ------------------------------------------------------------------ *)
(* The replication stream                                               *)
(* ------------------------------------------------------------------ *)

\* Capacity of the channel of the SYN replication stream.
SYN_REPLICATION_STREAM_CAPACITY == 5

\* ReplicationStreamTask::spawn: the handle of a stream just opened.
NewReplicationStreamTaskHandle == [next_seqno |-> 0]

\* ReplicationStreamTaskHandle::next_replication_seqno: the number handed out.
next_replication_seqno(handle) == handle.next_seqno

\* The handle after next_replication_seqno.
AfterNextReplicationSeqno(handle) == [handle EXCEPT !.next_seqno = @ + 1]

\* A persist that leaves the sequence number out of the request.
NewReplicateRequestWithoutSeqno(leader_id, follower_id, subrequests, commit_type, replication_seqno) ==
    [leader_id |-> leader_id, follower_id |-> follower_id, subrequests |-> subrequests,
     commit_type |-> commit_type, replication_seqno |-> 0]

\* The ReplicateRequest that persist builds, lines 356-362.
NewReplicateRequest(leader_id, follower_id, subrequests, commit_type, replication_seqno) ==
    [leader_id |-> leader_id, follower_id |-> follower_id, subrequests |-> subrequests,
     commit_type |-> commit_type, replication_seqno |-> replication_seqno]

\* The outcome of open_replication_stream: its result, the keys of
\* replication_tasks, whether a task is spawned, and what is put on the ack
\* stream that is returned.
OpenRefused(tasks) ==
    [result |-> "internal", tasks |-> tasks, spawned |-> FALSE, acks |-> <<>>]

OpenAccepted(tasks, leader_id) ==
    [result |-> "ok", tasks |-> tasks \cup {leader_id}, spawned |-> TRUE,
     acks |-> <<"open_response">>]

\* A handler that opens a second stream for a leader that has one.
open_replication_stream_again(n, message, tasks) ==
    IF message.kind = "none" \/ message.follower_id # n
    THEN OpenRefused(tasks)
    ELSE OpenAccepted(tasks, message.leader_id)

\* A handler that accepts the Open requests meant for another follower.
open_replication_stream_unrouted(n, message, tasks) ==
    IF message.kind = "none" \/ message.leader_id \in tasks
    THEN OpenRefused(tasks)
    ELSE OpenAccepted(tasks, message.leader_id)

\* A handler that registers the task without sending the OpenResponse.
open_replication_stream_silent(n, message, tasks) ==
    IF message.kind = "none" \/ message.follower_id # n \/ message.leader_id \in tasks
    THEN OpenRefused(tasks)
    ELSE [OpenAccepted(tasks, message.leader_id) EXCEPT !.acks = <<>>]

\* Ingester::open_replication_stream on node n, lines 408-450, given the
\* first message of the syn stream and the keys of replication_tasks.
open_replication_stream(n, message, tasks) ==
    IF message.kind = "none"
    THEN OpenRefused(tasks)      \* "syn replication stream aborted"
    ELSE IF message.follower_id # n
    THEN OpenRefused(tasks)      \* "routing error"
    ELSE IF message.leader_id \in tasks
    THEN OpenRefused(tasks)      \* "a replication stream ... is already opened"
    ELSE OpenAccepted(tasks, message.leader_id)

\* What a call of open_replication_stream on node n leaves in the state
\* of n.
ApplyOpenReplicationStream(n, message, outcome) ==
    /\ replication_tasks' = [replication_tasks EXCEPT ![n] = outcome.tasks]
    /\ spawned_tasks' = [spawned_tasks EXCEPT ![n] =
            IF outcome.spawned THEN Append(@, message.leader_id) ELSE @]
    /\ open_result' = [open_result EXCEPT ![n] =
            [kind |-> outcome.result, message |-> message]]
    /\ ack_sent' =
            IF message.kind = "open" /\ outcome.acks # <<>>
            THEN [ack_sent EXCEPT ![message.leader_id][n] = @ \o outcome.acks]
            ELSE ack_sent

\* A client opens a replication stream with node n. The write-lock of the
\* state is needed once the Open request has passed the routing check.
OpenReplicationStream(n, message) ==
    /\ ready[n]
    /\ ops < MaxOps
    /\ ops' = ops + 1
    /\ (message.kind = "open" /\ message.follower_id = n) => state_lock[n] = Unlocked
    /\ ApplyOpenReplicationStream(n, message,
            open_replication_stream(n, message, replication_tasks[n]))
    /\ UNCHANGED <<fetch_stream, ready, sealed, truncate_response, mrecordlog, shards,
                   replication_streams, connection, syn_stream, ack_stream, state_lock,
                   calls, wal_order, submitted>>

\* init_replication_stream, lines 190-224: the leader calls
\* open_replication_stream on the follower, takes the OpenResponse from the
\* ack stream and spawns its stream task; then the end of create_shard and
\* the rest of the turn of the loop. The follower's handler needs the
\* follower's state write-lock.
PersistOpenStream(c) ==
    LET n == calls[c].node
        call == calls[c]
        sub == call.current
        f == sub.follower_id
        message == OpenMessage(n, f)
        outcome == open_replication_stream(f, message, replication_tasks[f])
    IN
    /\ call.pc = "open"
    /\ ready[f]
    /\ state_lock[f] = Unlocked
    /\ ApplyOpenReplicationStream(f, message, outcome)
    /\ IF outcome.result # "ok" \/ outcome.acks = <<>>
       THEN \* open_replication_stream(..).await? or .expect("TODO"), then
            \* create_shard(..).expect("TODO")
            /\ calls' = [calls EXCEPT ![c] = PanicCall(call)]
            /\ state_lock' = [state_lock EXCEPT ![n] = Unlocked]
            /\ UNCHANGED <<mrecordlog, shards, replication_streams, connection,
                           wal_order>>
       ELSE /\ connection' = [connection EXCEPT ![n][f] = "open"]
            /\ replication_streams' = [replication_streams EXCEPT ![n] =
                    MapInsert(@, f, NewReplicationStreamTaskHandle)]
            /\ ApplyPersistOnShard(c, n,
                    PersistOnShard(call, sub, mrecordlog[n],
                                   MapInsert(shards[n], sub.queue_id, PrimaryShard(f)),
                                   wal_order[n]))
    /\ UNCHANGED <<fetch_stream, ready, sealed, truncate_response, syn_stream, ack_stream, ops,
                   submitted>>

\* The followers of the groups of replicate subrequests of a call.
GroupFollowers(call) == DOMAIN call.replicate_subrequests

\* A persist that keeps the write-guard while it waits for the followers.
GuardKeptWhileWaiting(c) == c

\* drop(state_guard), line 368: the holder of the lock after the replicate
\* requests have been pushed.
GuardAfterSubmit(c) == Unlocked

\* The end of the loop, lines 339-368. Without replicate subrequests the
\* response is returned. Otherwise one replicate request per follower is
\* submitted to the follower's stream, and the write-guard is dropped.
PersistSubmit(c) ==
    LET n == calls[c].node
        call == calls[c]
        followers == GroupFollowers(call)
        request(f) ==
            NewReplicateRequest(n, f, call.replicate_subrequests[f], call.commit_type,
                                next_replication_seqno(replication_streams[n][f]))
    IN
    /\ call.pc = "loop"
    /\ Len(call.subrequests) > 0
    /\ \A f \in followers \cap Nodes :
          connection[n][f] = "open" => Len(syn_stream[n][f]) < SYN_REPLICATION_STREAM_CAPACITY
    /\ state_lock' = [state_lock EXCEPT ![n] =
            IF followers # {} /\ followers \subseteq DOMAIN replication_streams[n]
            THEN GuardAfterSubmit(c)
            ELSE Unlocked]
    /\ IF followers = {}
       THEN /\ calls' = [calls EXCEPT ![c] = [call EXCEPT
                    !.pc = "done",
                    !.response = OkResponse(call.persist_successes, call.persist_failures)]]
            /\ UNCHANGED <<replication_streams, syn_stream, submitted>>
       ELSE IF \E f \in followers : f \notin DOMAIN replication_streams[n]
       THEN \* "replication stream should be initialized"
            /\ calls' = [calls EXCEPT ![c] = PanicCall(call)]
            /\ UNCHANGED <<replication_streams, syn_stream, submitted>>
       ELSE /\ replication_streams' = [replication_streams EXCEPT ![n] =
                    [f \in DOMAIN @ |->
                        IF f \in followers THEN AfterNextReplicationSeqno(@[f]) ELSE @[f]]]
            /\ syn_stream' = [syn_stream EXCEPT ![n] =
                    [f \in Nodes |->
                        IF f \in followers /\ connection[n][f] = "open"
                        THEN Append(@[f], request(f)) ELSE @[f]]]
            /\ submitted' = [submitted EXCEPT ![n] =
                    [f \in Nodes |->
                        IF f \in followers THEN Append(@[f], request(f)) ELSE @[f]]]
            /\ calls' = [calls EXCEPT ![c] = [call EXCEPT
                    !.pc = "await",
                    !.replicate_futures =
                        [f \in followers |-> request(f).replication_seqno]]]
    /\ UNCHANGED <<fetch_stream, ready, sealed, truncate_response, open_result, spawned_tasks,
                   ack_sent, mrecordlog, shards, replication_tasks, connection,
                   ack_stream, ops, wal_order>>

\* The PersistSuccess made of a ReplicateSuccess, lines 382-389.
PersistSuccessOf(replicate_success) ==
    [subrequest_id |-> replicate_success.subrequest_id,
     queue_id |-> replicate_success.queue_id,
     replication_position_inclusive |-> replicate_success.replication_position_inclusive]

\* The call after one of its replicate futures has completed.
AfterFuture(call, f, successes, broken) ==
    LET futures == MapRemove(call.replicate_futures, f)
    IN  [call EXCEPT
            !.pc = IF DOMAIN futures = {} THEN "relock" ELSE "await",
            !.replicate_futures = futures,
            !.broken_futures = IF broken THEN @ \cup {f} ELSE @,
            !.persist_successes =
                @ \o [k \in 1..Len(successes) |-> PersistSuccessOf(successes[k])]]

\* replicate_futures.next().await gives Ok(replicate_response), lines
\* 370-391: the stream task hands the acknowledgement to the future that
\* waits for it, and persist takes its successes.
PersistAwaitOk(c, f) ==
    LET n == calls[c].node
        call == calls[c]
    IN
    /\ call.pc = "await"
    /\ f \in DOMAIN call.replicate_futures
    /\ ack_stream[n][f] # <<>>
    /\ Head(ack_stream[n][f]).replication_seqno = call.replicate_futures[f]
    /\ ack_stream' = [ack_stream EXCEPT ![n][f] = Tail(@)]
    /\ calls' = [calls EXCEPT ![c] =
            AfterFuture(call, f, Head(ack_stream[n][f]).successes, FALSE)]
    /\ UNCHANGED <<fetch_stream, ready, sealed, truncate_response, open_result, spawned_tasks,
                   ack_sent, mrecordlog, shards, replication_streams, replication_tasks,
                   connection, syn_stream, state_lock, ops, wal_order, submitted>>

\* replicate_futures.next().await gives Err(_), lines 373-379: the stream
\* is broken; the error is dropped.
PersistAwaitErr(c, f) ==
    LET n == calls[c].node
        call == calls[c]
    IN
    /\ call.pc = "await"
    /\ f \in DOMAIN call.replicate_futures
    /\ connection[n][f] = "broken"
    /\ calls' = [calls EXCEPT ![c] = AfterFuture(call, f, <<>>, TRUE)]
    /\ UNCHANGED <<fetch_stream, ready, sealed, truncate_response, open_result, spawned_tasks,
                   ack_sent, mrecordlog, shards, replication_streams, replication_tasks,
                   connection, syn_stream, ack_stream, state_lock, ops, wal_order,
                   submitted>>

\* The response of the replicated path, lines 393-404: the write-lock is
\* taken again, and the failures of the response are an empty vector.
PersistReturn(c) ==
    LET n == calls[c].node
        call == calls[c]
    IN
    /\ call.pc = "relock"
    /\ state_lock[n] = Unlocked
    /\ calls' = [calls EXCEPT ![c] = [call EXCEPT
            !.pc = "done",
            !.response = OkResponse(call.persist_successes, <<>>)]]
    /\ UNCHANGED <<fetch_stream, ready, sealed, truncate_response, open_result, spawned_tasks,
                   ack_sent, mrecordlog, shards, replication_streams, replication_tasks,
                   connection, syn_stream, ack_stream, state_lock, ops, wal_order,
                   submitted>>

(* ------------------------------------------------------------------ *)
(* The replication task of the follower                                 *)
(* ------------------------------------------------------------------ *)

\* One replicate subrequest on the follower: the replica shard is created
\* when it is missing; a closed shard gives a failure; a subrequest that
\* does not start at the position of the shard is fatal to the stream;
\* otherwise the records are appended and the shard takes the position
\* to_position_inclusive.
ReplicateOne(acc, leader_id, commit_type, sub) ==
    LET queue_id == sub.queue_id
        missing == queue_id \notin DOMAIN acc.table
        log == IF missing /\ queue_id \notin DOMAIN acc.log
               THEN MapInsert(acc.log, queue_id, EmptyQueue) ELSE acc.log
        table == IF missing
                 THEN MapInsert(acc.table, queue_id, ReplicaShard(leader_id))
                 ELSE acc.table
        shard == table[queue_id]
        encoded_mrecords == EncodedMRecords(sub.doc_batch, commit_type = "Force")
    IN  IF acc.fatal THEN acc
        ELSE IF missing /\ queue_id \in DOMAIN acc.log
        THEN [acc EXCEPT !.fatal = TRUE]
        ELSE IF is_closed(shard)
        THEN [acc EXCEPT !.log = log, !.table = table,
                !.failures = Append(@,
                    [subrequest_id |-> sub.subrequest_id, queue_id |-> queue_id,
                     reason |-> "ShardClosed"])]
        ELSE IF sub.from_position_exclusive # shard.position
        THEN [acc EXCEPT !.log = log, !.table = table, !.fatal = TRUE]
        ELSE [acc EXCEPT
                !.log = [log EXCEPT ![queue_id] = append_records(@, encoded_mrecords)],
                !.table = [table EXCEPT ![queue_id] =
                    set_replication_position_inclusive(@, sub.to_position_inclusive)],
                !.successes = Append(@,
                    [subrequest_id |-> sub.subrequest_id, queue_id |-> queue_id,
                     replication_position_inclusive |-> sub.to_position_inclusive])]

RECURSIVE ReplicateAll(_, _, _, _, _)
ReplicateAll(acc, leader_id, commit_type, subrequests, k) ==
    IF k > Len(subrequests) THEN acc
    ELSE ReplicateAll(ReplicateOne(acc, leader_id, commit_type, subrequests[k]),
                      leader_id, commit_type, subrequests, k + 1)

\* The replication task of follower f takes the next replicate request of
\* leader l, applies it under the state write-lock of f and acknowledges
\* it with the sequence number of the request.
ReplicationTaskStep(l, f) ==
    LET request == Head(syn_stream[l][f])
        outcome ==
            ReplicateAll([log |-> mrecordlog[f], table |-> shards[f], successes |-> <<>>,
                          failures |-> <<>>, fatal |-> FALSE],
                         l, request.commit_type, request.subrequests, 1)
    IN
    /\ connection[l][f] = "open"
    /\ l \in replication_tasks[f]
    /\ syn_stream[l][f] # <<>>
    /\ state_lock[f] = Unlocked
    /\ mrecordlog' = [mrecordlog EXCEPT ![f] = outcome.log]
    /\ shards' = [shards EXCEPT ![f] = outcome.table]
    /\ IF outcome.fatal
       THEN /\ connection' = [connection EXCEPT ![l][f] = "broken"]
            /\ syn_stream' = [syn_stream EXCEPT ![l][f] = <<>>]
            /\ ack_stream' = [ack_stream EXCEPT ![l][f] = <<>>]
            /\ UNCHANGED ack_sent
       ELSE /\ syn_stream' = [syn_stream EXCEPT ![l][f] = Tail(@)]
            /\ ack_sent' = [ack_sent EXCEPT ![l][f] = Append(@, "replicate_response")]
            /\ ack_stream' = [ack_stream EXCEPT ![l][f] = Append(@,
                    [replication_seqno |-> request.replication_seqno,
                     successes |-> outcome.successes, failures |-> outcome.failures])]
            /\ UNCHANGED connection
    /\ UNCHANGED <<fetch_stream, ready, sealed, truncate_response, open_result, spawned_tasks,
                   replication_streams, replication_tasks, state_lock, calls, ops,
                   wal_order, submitted>>

\* The connection between leader l and follower f fails: the messages in
\* flight are lost and the futures that wait on the stream fail.
StreamBreak(l, f) ==
    /\ connection[l][f] = "open"
    /\ ops < MaxOps
    /\ ops' = ops + 1
    /\ connection' = [connection EXCEPT ![l][f] = "broken"]
    /\ syn_stream' = [syn_stream EXCEPT ![l][f] = <<>>]
    /\ ack_stream' = [ack_stream EXCEPT ![l][f] = <<>>]
    /\ UNCHANGED <<fetch_stream, ready, sealed, truncate_response, open_result, spawned_tasks,
                   ack_sent, mrecordlog, shards, replication_streams, replication_tasks,
                   state_lock, calls, wal_order, submitted>>

(* ------------------------------------------------------------------ *)
(* truncate                                                             *)
(* ------------------------------------------------------------------ *)

\* The positions that truncate subrequests carry.
TruncatePositions == {Beginning, Offset(0), Offset(1), Eof}

\* The subrequests of truncate requests.
TruncateSubrequests ==
    [queue_id : QueueIds, to_position_inclusive : TruncatePositions]

\* The truncate requests with several subrequests: the second one names
\* the queue q2, which is missing from the WAL in most states.
TruncateBatches ==
    { << [queue_id |-> "q1", to_position_inclusive |-> Offset(0)],
         [queue_id |-> "q2", to_position_inclusive |-> Offset(0)],
         last >> :
        last \in [queue_id : {"q1"}, to_position_inclusive : {Offset(1), Eof}] }

\* The truncate requests that a node n receives: for itself, with one
\* subrequest or several, and for another ingester.
TruncateRequests(n) ==
    [ingester_id : {n},
     subrequests : {<<subrequest>> : subrequest \in TruncateSubrequests} \cup TruncateBatches]
    \cup [ingester_id : Nodes \ {n},
          subrequests : {<< [queue_id |-> "q1", to_position_inclusive |-> Eof] >>}]

\* A truncate that leaves the record at the offset given in the queue.
TruncateOneExclusive(acc, queue_id, to_position_inclusive) ==
    IF to_position_inclusive.kind = "Offset"
    THEN IF queue_id \in DOMAIN acc.log /\ to_position_inclusive.offset > 0
         THEN [acc EXCEPT !.log = [acc.log EXCEPT ![queue_id] =
                    truncate_queue(@, to_position_inclusive.offset - 1)]]
         ELSE acc
    ELSE IF to_position_inclusive = Eof
    THEN [acc EXCEPT !.log = MapRemove(acc.log, queue_id),
                     !.table = MapRemove(acc.table, queue_id)]
    ELSE acc

\* One truncate subrequest, lines 507-529, on the log and the table; a
\* queue that is missing is not an error.
TruncateOne(acc, queue_id, to_position_inclusive) ==
    LET to_offset_inclusive == PositionAsU64(to_position_inclusive)
    IN  IF to_offset_inclusive # NoOffset
        THEN IF queue_id \in DOMAIN acc.log
             THEN [acc EXCEPT !.log = [acc.log EXCEPT ![queue_id] =
                        truncate_queue(@, Unwrap(to_offset_inclusive))]]
             ELSE acc
        ELSE IF to_position_inclusive = Eof
        THEN [acc EXCEPT !.log = MapRemove(acc.log, queue_id),
                         !.table = MapRemove(acc.table, queue_id)]
        ELSE acc

\* A loop that ends at the first subrequest whose queue is missing.
RECURSIVE TruncateAllUntilMissing(_, _, _)
TruncateAllUntilMissing(acc, subrequests, k) ==
    IF k > Len(subrequests) \/ subrequests[k].queue_id \notin DOMAIN acc.log
    THEN acc
    ELSE TruncateAllUntilMissing(
            TruncateOne(acc, subrequests[k].queue_id, subrequests[k].to_position_inclusive),
            subrequests, k + 1)

\* The loop over the subrequests, lines 505-530, from the k-th one on.
RECURSIVE TruncateAll(_, _, _)
TruncateAll(acc, subrequests, k) ==
    IF k > Len(subrequests)
    THEN acc
    ELSE TruncateAll(
            TruncateOne(acc, subrequests[k].queue_id, subrequests[k].to_position_inclusive),
            subrequests, k + 1)

\* A truncate that applies the subrequests of a request for another ingester.
TruncateResultUnrouted(n, ingester_id) == "ok"

\* The routing check of truncate, lines 498-503, and its result.
TruncateResult(n, ingester_id) == IF ingester_id # n THEN "internal" ELSE "ok"

\* Ingester::truncate, under the state write-lock. A call that changes
\* nothing, its result included, is not counted.
Truncate(n, ingester_id, subrequests) ==
    LET result == TruncateResult(n, ingester_id)
        outcome ==
            IF result = "internal"
            THEN [log |-> mrecordlog[n], table |-> shards[n]]
            ELSE TruncateAll([log |-> mrecordlog[n], table |-> shards[n]], subrequests, 1)
        response == [kind |-> result, num_subrequests |-> Len(subrequests)]
        free == /\ outcome.log = mrecordlog[n]
                /\ outcome.table = shards[n]
                /\ response = truncate_response[n]
    IN
    /\ ready[n]
    /\ free \/ ops < MaxOps
    /\ ops' = IF free THEN ops ELSE ops + 1
    /\ state_lock[n] = Unlocked
    /\ mrecordlog' = [mrecordlog EXCEPT ![n] = outcome.log]
    /\ shards' = [shards EXCEPT ![n] = outcome.table]
    /\ truncate_response' = [truncate_response EXCEPT ![n] = response]
    /\ sealed' = [sealed EXCEPT ![n] =
            [q \in DOMAIN @ |->
                /\ @[q]
                /\ ~(/\ result = "ok"
                     /\ \E k \in 1..Len(subrequests) :
                           subrequests[k] = [queue_id |-> q, to_position_inclusive |-> Eof])]]
    /\ UNCHANGED <<fetch_stream, ready, open_result, spawned_tasks, ack_sent, replication_streams,
                   replication_tasks, connection, syn_stream, ack_stream, state_lock,
                   calls, wal_order, submitted>>

(* ------------------------------------------------------------------ *)
(* Fetch streams                                                        *)
(* ------------------------------------------------------------------ *)

\* FetchTask::DEFAULT_BATCH_NUM_BYTES, the byte budget of one frame: here a
\* document and a Commit record fit in a frame, two documents do not.
DEFAULT_BATCH_NUM_BYTES == 7

\* Option<Position>: the empty set is None, {p} is Some(p).
NoPosition == {}

SomePosition(p) == {p}

\* The OpenFetchStreamRequests of the consumer: for a queue id, from its
\* beginning (no position given) or from after its first record.
OpenFetchStreamRequests ==
    { [queue_id |-> "q1", from_position_exclusive |-> from] :
        from \in {NoPosition, SomePosition(Offset(0))} }

\* OpenFetchStreamRequest::from_position_exclusive(): Beginning by default.
from_position_exclusive(request) ==
    IF request.from_position_exclusive = NoPosition
    THEN Beginning
    ELSE Unwrap(request.from_position_exclusive)

\* A fetch task that starts at the beginning of the queue whatever the
\* request says.
NewFetchTaskFromBeginning(n, request, log) ==
    [status |-> "open", node |-> n, queue_id |-> request.queue_id,
     requested |-> request.from_position_exclusive,
     from_position_exclusive |-> Beginning,
     opened_at |-> IF request.queue_id \in DOMAIN log
                   THEN NextOffset(log[request.queue_id]) ELSE 0,
     frames |-> <<>>]

\* FetchTask::spawn(open_fetch_stream_request, state, new_records_rx,
\* DEFAULT_BATCH_NUM_BYTES): the task and its stream, no frame sent yet.
\* requested keeps the position of the request, opened_at the next offset
\* of the queue at that time.
NewFetchTask(n, request, log) ==
    [status |-> "open", node |-> n, queue_id |-> request.queue_id,
     requested |-> request.from_position_exclusive,
     from_position_exclusive |-> from_position_exclusive(request),
     opened_at |-> IF request.queue_id \in DOMAIN log
                   THEN NextOffset(log[request.queue_id]) ELSE 0,
     frames |-> <<>>]

\* An open_fetch_stream that does not look for the shard.
open_fetch_stream_unchecked(n, request, table, log) == NewFetchTask(n, request, log)

\* Ingester::open_fetch_stream: Internal("shard not found") when the shard
\* table has no shard for the queue id, a fetch task otherwise.
open_fetch_stream(n, request, table, log) ==
    IF request.queue_id \notin DOMAIN table
    THEN [NoFetchStream EXCEPT !.status = "internal"]
    ELSE NewFetchTask(n, request, log)

\* The consumer opens its fetch stream with node n; the handler reads the
\* shard table under the state read-lock.
OpenFetchStream(n, request) ==
    /\ ready[n]
    /\ fetch_stream.status = "none"
    /\ state_lock[n] = Unlocked
    /\ fetch_stream' = open_fetch_stream(n, request, shards[n], mrecordlog[n])
    /\ UNCHANGED <<ready, mrecordlog, shards, replication_streams, replication_tasks,
                   connection, syn_stream, ack_stream, state_lock, calls, ops,
                   wal_order, submitted, sealed, truncate_response, open_result,
                   spawned_tasks, ack_sent>>

\* The position that the next frame of the stream starts after.
FetchCursor(stream) ==
    IF stream.frames = <<>>
    THEN stream.from_position_exclusive
    ELSE stream.frames[Len(stream.frames)].to_position_inclusive

\* The first offset after a position.
NextFetchOffset(position) ==
    IF position.kind = "Offset" THEN position.offset + 1 ELSE 0

\* The number of bytes of the first k records of a range of the log.
RECURSIVE BatchNumBytes(_, _)
BatchNumBytes(mrecords, k) ==
    IF k = 0 THEN 0 ELSE BatchNumBytes(mrecords, k - 1) + Len(mrecords[k][2])

\* The number of records that go in one frame: as many as the byte budget
\* allows, and one at least.
FetchBatchLen(mrecords) ==
    LET fits == {k \in 1..Len(mrecords) : BatchNumBytes(mrecords, k) <= DEFAULT_BATCH_NUM_BYTES}
    IN  IF fits = {} THEN 1 ELSE CHOOSE k \in fits : \A j \in fits : j <= k

\* The frame that the fetch task makes of the records after its cursor.
FetchFrame(queue, cursor) ==
    LET mrecords == range(queue, NextFetchOffset(cursor))
        k == FetchBatchLen(mrecords)
    IN  [from_position_exclusive |-> cursor,
         to_position_inclusive |-> Offset(mrecords[k][1]),
         mrecord_batch |-> [i \in 1..k |-> mrecords[i][2]]]

\* One turn of the fetch task, under the state read-lock: it reads the
\* records after its cursor and sends them in a frame; it waits for the
\* notifier when there is none, and exits when the queue is gone.
FetchTaskStep ==
    LET stream == fetch_stream
        n == stream.node
        log == mrecordlog[n]
        cursor == FetchCursor(stream)
    IN
    /\ stream.status = "open"
    /\ state_lock[n] = Unlocked
    /\ IF stream.queue_id \notin DOMAIN log
       THEN fetch_stream' = [stream EXCEPT !.status = "ended"]
       ELSE /\ range(log[stream.queue_id], NextFetchOffset(cursor)) # <<>>
            /\ fetch_stream' = [stream EXCEPT
                    !.frames = Append(@, FetchFrame(log[stream.queue_id], cursor))]
    /\ UNCHANGED <<ready, mrecordlog, shards, replication_streams, replication_tasks,
                   connection, syn_stream, ack_stream, state_lock, calls, ops,
                   wal_order, submitted, sealed, truncate_response, open_result,
                   spawned_tasks, ack_sent>>

(* ------------------------------------------------------------------ *)
(* Specification                                                        *)
(* ------------------------------------------------------------------ *)

Next ==
    \/ \E n \in Nodes : InitRun(n)
    \/ \E c \in CallIds, n \in Nodes, leader_id \in Nodes, commit_type \in {"Auto", "Force"} :
          PersistCall(c, n, leader_id, commit_type)
    \/ \E c \in CallIds : PersistLock(c)
    \/ \E c \in CallIds, queue_id \in QueueIds,
             follower_id \in Nodes \cup Outsiders \cup {None} :
          PersistSubrequest(c, queue_id, follower_id)
    \/ \E c \in CallIds : PersistOpenStream(c)
    \/ \E n \in Nodes, message \in OpenMessages : OpenReplicationStream(n, message)
    \/ \E c \in CallIds : PersistSubmit(c)
    \/ \E c \in CallIds, f \in Nodes : PersistAwaitOk(c, f)
    \/ \E c \in CallIds, f \in Nodes : PersistAwaitErr(c, f)
    \/ \E c \in CallIds : PersistReturn(c)
    \/ \E l \in Nodes, f \in Nodes : ReplicationTaskStep(l, f)
    \/ \E l \in Nodes, f \in Nodes : StreamBreak(l, f)
    \/ \E n \in Nodes : \E request \in TruncateRequests(n) :
          Truncate(n, request.ingester_id, request.subrequests)

Spec == Init /\ [][Next]_vars

\* The steps that a persist call takes by itself once it has been polled:
\* the runtime runs a task that can go on. The subrequests are input, and
\* the follower is another machine: nothing says that it ever answers.
PersistStep ==
    \E c \in CallIds :
        \/ PersistLock(c)
        \/ PersistOpenStream(c)
        \/ PersistSubmit(c)
        \/ PersistReturn(c)
        \/ \E f \in Nodes : PersistAwaitOk(c, f) \/ PersistAwaitErr(c, f)

\* The ingester with a runtime that keeps running the persist calls.
PersistFairSpec == Spec /\ WF_vars(PersistStep)

\* A turn of the loop of persist in which append_records returns an I/O
\* error, lines 283-301: .expect("TODO") panics, the call unwinds and its
\* write-guard is dropped. Nothing is appended and the shard is left as it
\* is.
PersistAppendIoError(c, queue_id) ==
    LET n == calls[c].node
        call == calls[c]
    IN
    /\ call.pc = "loop"
    /\ queue_id \in DOMAIN shards[n]
    /\ ~ShardIsClosed(shards[n][queue_id])
    /\ Len(call.subrequests) = 0 \/ ops < MaxOps
    /\ ops' = IF Len(call.subrequests) = 0 THEN ops ELSE ops + 1
    /\ calls' = [calls EXCEPT ![c] = PanicCall(call)]
    /\ state_lock' = [state_lock EXCEPT ![n] = Unlocked]
    /\ UNCHANGED <<fetch_stream, ready, sealed, truncate_response, open_result,
                   spawned_tasks, ack_sent, mrecordlog, shards, replication_streams,
                   replication_tasks, connection, syn_stream, ack_stream, wal_order,
                   submitted>>

\* The ingester with routers that may send batches without documents.
EmptyBatchNext ==
    \/ Next
    \/ \E c \in CallIds, queue_id \in QueueIds, follower_id \in Nodes \cup {None} :
          PersistEmptySubrequest(c, queue_id, follower_id)

EmptyBatchSpec == Init /\ [][EmptyBatchNext]_vars

\* A truncate of one subrequest to Eof in which delete_queue returns an
\* I/O error, lines 521-529: the error is logged, the queue stays in the
\* log and the shard is removed from the table all the same.
TruncateDeleteIoError(n, queue_id) ==
    /\ ready[n]
    /\ ops < MaxOps
    /\ ops' = ops + 1
    /\ state_lock[n] = Unlocked
    /\ queue_id \in DOMAIN mrecordlog[n]
    /\ shards' = [shards EXCEPT ![n] = MapRemove(@, queue_id)]
    /\ truncate_response' = [truncate_response EXCEPT ![n] =
            [kind |-> "ok", num_subrequests |-> 1]]
    /\ UNCHANGED <<fetch_stream, ready, sealed, open_result, spawned_tasks, ack_sent,
                   mrecordlog, replication_streams, replication_tasks, connection,
                   syn_stream, ack_stream, state_lock, calls, wal_order, submitted>>

\* The ingester on a disk whose writes can fail.
IoNext ==
    \/ Next
    \/ \E c \in CallIds, queue_id \in QueueIds : PersistAppendIoError(c, queue_id)
    \/ \E n \in Nodes, queue_id \in QueueIds : TruncateDeleteIoError(n, queue_id)

IoSpec == Init /\ [][IoNext]_vars

\* The first turn of the loop of a persist call: a persist request has one
\* subrequest at least, and the handler goes to it without waiting.
PersistFirstTurn ==
    \E c \in CallIds, queue_id \in QueueIds, follower_id \in Nodes \cup {None} :
        /\ Len(calls[c].subrequests) = 0
        /\ PersistSubrequest(c, queue_id, follower_id)

\* The ingester and the consumer of a fetch stream.
FetchNext ==
    \/ \E n \in Nodes : InitRun(n)
    \/ \E c \in CallIds, n \in Nodes, commit_type \in {"Auto", "Force"} :
          PersistCall(c, n, n, commit_type)
    \/ \E c \in CallIds : PersistLock(c)
    \/ \E c \in CallIds, queue_id \in QueueIds, follower_id \in Nodes \cup {None} :
          PersistSubrequest(c, queue_id, follower_id)
    \/ \E c \in CallIds : PersistOpenStream(c)
    \/ \E c \in CallIds : PersistSubmit(c)
    \/ \E c \in CallIds, f \in Nodes : PersistAwaitOk(c, f)
    \/ \E c \in CallIds : PersistReturn(c)
    \/ \E l \in Nodes, f \in Nodes : ReplicationTaskStep(l, f)
    \/ \E n \in Nodes : \E request \in TruncateRequests(n) :
          Truncate(n, request.ingester_id, request.subrequests)
    \/ \E n \in Nodes, request \in OpenFetchStreamRequests : OpenFetchStream(n, request)
    \/ FetchTaskStep

\* The ingesters are running, and the leader may have served a persist
\* request before: then its log holds a document in the queue of an open
\* solo shard.
FetchInit ==
    /\ ready = [n \in Nodes |-> TRUE]
    /\ \E served \in BOOLEAN :
        /\ mrecordlog =
               [n \in Nodes |->
                   IF served /\ n \in Leaders
                   THEN MapInsert(EmptyMap, "q1", append_records(EmptyQueue, <<EncodeDoc(OldDoc)>>))
                   ELSE EmptyMap]
        /\ shards =
               [n \in Nodes |->
                   IF served /\ n \in Leaders
                   THEN MapInsert(EmptyMap, "q1", SoloShard("Open", Offset(0)))
                   ELSE EmptyMap]
        /\ wal_order = [n \in Nodes |-> IF served /\ n \in Leaders THEN 1 ELSE 0]
    /\ replication_streams = [n \in Nodes |-> EmptyMap]
    /\ replication_tasks = [n \in Nodes |-> {}]
    /\ connection = [l \in Nodes |-> [f \in Nodes |-> "none"]]
    /\ syn_stream = [l \in Nodes |-> [f \in Nodes |-> <<>>]]
    /\ ack_stream = [l \in Nodes |-> [f \in Nodes |-> <<>>]]
    /\ state_lock = [n \in Nodes |-> Unlocked]
    /\ calls = [c \in CallIds |-> IdleCall]
    /\ ops = 0
    /\ submitted = [l \in Nodes |-> [f \in Nodes |-> <<>>]]
    /\ sealed = [n \in Nodes |-> EmptyMap]
    /\ truncate_response = [n \in Nodes |-> [kind |-> "none", num_subrequests |-> 0]]
    /\ open_result = [n \in Nodes |-> [kind |-> "none", message |-> NoMessage]]
    /\ spawned_tasks = [n \in Nodes |-> <<>>]
    /\ ack_sent = [l \in Nodes |-> [f \in Nodes |-> <<>>]]
    /\ fetch_stream = NoFetchStream

\* The runtime keeps running the fetch task and the persist calls: the
\* state lock that the fetch task needs is released in the end.
FetchSpec ==
    /\ FetchInit
    /\ [][FetchNext]_vars
    /\ WF_vars(FetchTaskStep)
    /\ WF_vars(PersistStep)
    /\ WF_vars(PersistFirstTurn)

\* Two ingesters that both get persist requests from the routers, each
\* one with the other in its pool of followers.
MutualNext ==
    \/ \E c \in CallIds, n \in Nodes, commit_type \in {"Auto", "Force"} :
          PersistCallOn(c, n, n, commit_type)
    \/ \E c \in CallIds : PersistLock(c)
    \/ \E c \in CallIds, queue_id \in QueueIds, follower_id \in Nodes \cup {None} :
          PersistSubrequest(c, queue_id, follower_id)
    \/ \E c \in CallIds : PersistOpenStream(c)
    \/ \E c \in CallIds : PersistSubmit(c)
    \/ \E c \in CallIds, f \in Nodes : PersistAwaitOk(c, f)
    \/ \E c \in CallIds : PersistReturn(c)
    \/ \E l \in Nodes, f \in Nodes : ReplicationTaskStep(l, f)

\* The runtime keeps running the persist calls and the replication tasks.
MutualSpec ==
    /\ FetchInit
    /\ [][MutualNext]_vars
    /\ WF_vars(PersistStep)
    /\ WF_vars(PersistFirstTurn)
    /\ WF_vars(\E l \in Nodes, f \in Nodes : ReplicationTaskStep(l, f))

\* The ingesters some time after they have started, with every handler
\* of Next: the leader may have served a persist request before.
RunningSpec == FetchInit /\ [][Next]_vars

(* ------------------------------------------------------------------ *)
(* Properties                                                           *)
(* ------------------------------------------------------------------ *)

\* The ranks in the leader's WAL of the batches of a replicate request.
TicketsOf(request) ==
    [k \in 1..Len(request.subrequests) |-> request.subrequests[k].ticket]

IsIncreasing(seq) == \A i, j \in 1..Len(seq) : i < j => seq[i] < seq[j]

\* C1: the replicate requests of a leader for a follower are submitted in
\* the order in which their batches were appended to the leader's WAL, and
\* their sequence numbers grow in that order; a persist call holds the
\* state write-lock from its first append until it has submitted its
\* requests.
C1_SubmissionFollowsWalOrder ==
    /\ \A l \in Nodes, f \in Nodes :
          LET requests == submitted[l][f]
          IN  /\ \A k \in 1..Len(requests) : IsIncreasing(TicketsOf(requests[k]))
              /\ \A i, j \in 1..Len(requests) :
                    i < j =>
                      /\ requests[i].replication_seqno < requests[j].replication_seqno
                      /\ \A a \in 1..Len(requests[i].subrequests),
                            b \in 1..Len(requests[j].subrequests) :
                            requests[i].subrequests[a].ticket
                                < requests[j].subrequests[b].ticket
    /\ \A c \in CallIds :
          calls[c].pc \in {"loop", "open"} => state_lock[calls[c].node] = c

\* Two persist calls have submitted a request to the same follower, and
\* both wait for their acknowledgement.
C1_Witness ==
    \E c, d \in CallIds, f \in Nodes :
        /\ c # d
        /\ calls[c].pc = "await" /\ calls[d].pc = "await"
        /\ calls[c].node = calls[d].node
        /\ f \in DOMAIN calls[c].replicate_futures
        /\ f \in DOMAIN calls[d].replicate_futures
        /\ Len(submitted[calls[c].node][f]) = 2

\* C10: the sequence numbers of the replicate requests submitted on a
\* stream are 0, 1, 2, ... in the order of submission.
C10_SeqnosCountFromZero ==
    \A l \in Nodes, f \in Nodes :
        \A k \in 1..Len(submitted[l][f]) :
            submitted[l][f][k].replication_seqno = k - 1

\* A stream has carried two requests, the second one in a later persist call.
C10_Witness ==
    \E l \in Nodes, f \in Nodes :
        /\ Len(submitted[l][f]) >= 2
        /\ \E c \in CallIds : calls[c].pc = "done" /\ calls[c].response.kind = "ok"
                              /\ calls[c].node = l
                              /\ Len(calls[c].response.successes) > 0
                              /\ f \in {shards[l][q].peer : q \in DOMAIN shards[l]}

EndsWithEof(queue) ==
    Len(queue.recs) > 0 /\ queue.recs[Len(queue.recs)] = <<0, 2>>

\* C6: init leaves an Eof record at the end of every queue: it appends one
\* to a queue that is empty or ends with another record, and nothing to a
\* queue that ends with an Eof record; a second init right after changes
\* neither the queues nor the shard table.
C6_InitSealsEveryQueueOnce ==
    [][\A n \in Nodes :
          InitRun(n) =>
            /\ DOMAIN mrecordlog'[n] = DOMAIN mrecordlog[n]
            /\ \A q \in DOMAIN mrecordlog[n] :
                  LET before == mrecordlog[n][q]
                      after == mrecordlog'[n][q]
                  IN  /\ EndsWithEof(after)
                      /\ after.start = before.start
                      /\ after.recs = IF EndsWithEof(before)
                                      THEN before.recs
                                      ELSE Append(before.recs, <<0, 2>>)
            /\ InitLog(mrecordlog'[n]) = mrecordlog'[n]
            /\ InitShards(mrecordlog'[n], shards'[n]) = shards'[n]]_vars

\* Init has run again on an ingester and has sealed a queue that holds
\* the document of a persist call.
C6_Witness ==
    \E n \in Nodes, q \in QueueIds :
        /\ q \in DOMAIN mrecordlog[n]
        /\ Len(mrecordlog[n][q].recs) >= 2
        /\ mrecordlog[n][q].recs[1] = <<0, 0, 1, 0, 1>>
        /\ EndsWithEof(mrecordlog[n][q])
        /\ q \in DOMAIN shards[n] /\ shards[n][q].position = Eof

\* C7: after init the shard table has one shard for each queue that the
\* WAL listed and no other, and each is solo, closed and at Eof.
C7_InitInsertsClosedSoloShards ==
    [][\A n \in Nodes :
          InitRun(n) =>
            /\ DOMAIN shards'[n] = DOMAIN mrecordlog[n]
            /\ \A q \in DOMAIN mrecordlog[n] :
                  shards'[n][q] = [role |-> "Solo", peer |-> None, state |-> "Closed",
                                   position |-> Eof]]_vars

\* An ingester has started on a WAL directory that held a queue emptied
\* by a truncate, and holds its shard.
C7_Witness ==
    \E n \in Nodes :
        /\ ready[n]
        /\ "q1" \in DOMAIN shards[n]
        /\ shards[n]["q1"].role = "Solo" /\ shards[n]["q1"].state = "Closed"
        /\ "q1" \in DOMAIN mrecordlog[n] /\ mrecordlog[n]["q1"].start = 1
        /\ ops = 0

\* The step appends a record to the queue q of node n, or creates the
\* queue with a record in it.
Appended(n, q) ==
    /\ q \in DOMAIN mrecordlog'[n]
    /\ NextOffset(mrecordlog'[n][q])
          > (IF q \in DOMAIN mrecordlog[n] THEN NextOffset(mrecordlog[n][q]) ELSE 0)

\* C8, as claimed: after init, no persist, truncate or replicate ever
\* appends a record to a queue with a queue id that the WAL held when init
\* ran.
C8_NoAppendToKnownQueueId ==
    [][(\E n \in Nodes : InitRun(n))
       \/ \A n \in Nodes : \A q \in DOMAIN sealed[n] : ~Appended(n, q)]_vars

\* C8, as amended: after init, no persist, truncate or replicate appends a
\* record to a queue that the WAL held when init ran, as long as a
\* truncate to Eof has not removed the queue and its shard.
C8_NoAppendToSealedQueue ==
    [][(\E n \in Nodes : InitRun(n))
       \/ \A n \in Nodes :
             \A q \in DOMAIN sealed[n] : sealed[n][q] => ~Appended(n, q)]_vars

\* A persist call was refused on the shard of a queue that init sealed
\* and that is still there.
C8_Witness ==
    \E c \in CallIds :
        /\ calls[c].pc = "done" /\ calls[c].response.kind = "ok"
        /\ \E k \in 1..Len(calls[c].response.failures) :
              LET q == calls[c].response.failures[k].queue_id
                  n == calls[c].node
              IN  /\ q \in DOMAIN sealed[n] /\ sealed[n][q]
                  /\ q \in DOMAIN mrecordlog[n] /\ EndsWithEof(mrecordlog[n][q])

\* The records that a subrequest is to leave in the queue.
ExpectedRecords(sub, commit_type) ==
    [j \in 1..Len(sub.doc_batch) |-> <<0, 0>> \o sub.doc_batch[j]]
        \o (IF commit_type = "Force" THEN << <<0, 1>> >> ELSE <<>>)

Last(seq) == seq[Len(seq)]

Returns(c) ==
    /\ calls[c].pc # "done"
    /\ calls'[c].pc = "done"
    /\ calls'[c].response.kind = "ok"

\* The queue holds a record at the offset.
HoldsOffset(queue, offset) ==
    queue.start <= offset /\ offset < NextOffset(queue)

RecordAt(queue, offset) == queue.recs[offset - queue.start + 1]

\* C2, as claimed and read to its advantage (records that a truncate has
\* removed from the queue of the leader are not compared, and the follower
\* may be ahead of the position reported): when persist returns a success
\* for a subrequest on a Primary shard, the follower holds a Replica shard
\* for the queue, its queue holds the records of the leader up to the
\* offset reported, and its shard has reached the position of the success.
C2_FollowerHoldsWhatSuccessReports ==
    [][\A c \in CallIds :
        Returns(c) =>
          \A k \in 1..Len(calls'[c].response.successes) :
            LET success == calls'[c].response.successes[k]
                n == calls'[c].node
                q == success.queue_id
                reported == success.replication_position_inclusive
            IN  (q \in DOMAIN shards'[n] /\ shards'[n][q].role = "Primary") =>
                  LET f == shards'[n][q].peer
                  IN  /\ q \in DOMAIN shards'[f]
                      /\ shards'[f][q].role = "Replica"
                      /\ PositionLeq(reported, shards'[f][q].position)
                      /\ q \in DOMAIN mrecordlog'[f]
                      /\ \A offset \in 0..reported.offset :
                            HoldsOffset(mrecordlog'[n][q], offset) =>
                              /\ HoldsOffset(mrecordlog'[f][q], offset)
                              /\ RecordAt(mrecordlog'[f][q], offset)
                                    = RecordAt(mrecordlog'[n][q], offset)]_vars

\* C3, as claimed: when persist returns after a replicate future has
\* failed with a broken stream, the entry of the follower is gone from
\* replication_streams, no shard of that follower is left open in the shard
\* table, and the response has a ShardClosed failure for every subrequest
\* sent to that follower.
C3_BrokenStreamClosesShards ==
    [][\A c \in CallIds :
        Returns(c) =>
          \A f \in calls[c].broken_futures :
            LET n == calls[c].node
            IN  /\ f \notin DOMAIN replication_streams'[n]
                /\ \A q \in DOMAIN shards'[n] :
                      (shards'[n][q].role = "Primary" /\ shards'[n][q].peer = f)
                          => is_closed(shards'[n][q])
                /\ \A j \in 1..Len(calls[c].replicate_subrequests[f]) :
                      \E k \in 1..Len(calls'[c].response.failures) :
                          /\ calls'[c].response.failures[k].subrequest_id
                                = calls[c].replicate_subrequests[f][j].subrequest_id
                          /\ calls'[c].response.failures[k].reason = "ShardClosed"]_vars

\* C4, as claimed: a subrequest of a persist call that finds its shard
\* Closed appends nothing to the queue of the shard, and the response of
\* the call has a ShardClosed failure with its subrequest_id.
C4_ClosedShardFailureIsReturned ==
    [][\A c \in CallIds :
        /\ Len(calls'[c].persist_failures) > Len(calls[c].persist_failures) =>
              LET q == Last(calls'[c].persist_failures).queue_id
              IN  mrecordlog'[calls'[c].node][q] = mrecordlog[calls[c].node][q]
        /\ Returns(c) =>
              \A j \in 1..Len(calls[c].persist_failures) :
                  \E k \in 1..Len(calls'[c].response.failures) :
                      /\ calls'[c].response.failures[k].subrequest_id
                            = calls[c].persist_failures[j].subrequest_id
                      /\ calls'[c].response.failures[k].reason = "ShardClosed"]_vars

C17_MisroutedTruncateChangesNothing ==
    [][\A n \in Nodes : \A request \in TruncateRequests(n) :
        (/\ Truncate(n, request.ingester_id, request.subrequests)
         /\ request.ingester_id # n) =>
            /\ truncate_response'[n].kind = "internal"
            /\ mrecordlog' = mrecordlog
            /\ shards' = shards]_vars

\* A node has refused a truncate to Eof of q1 that was for another
\* ingester, and still holds the queue q1 and its shard.
C17_Witness ==
    \E n \in Nodes :
        /\ truncate_response[n].kind = "internal"
        /\ "q1" \in DOMAIN mrecordlog[n]
        /\ "q1" \in DOMAIN shards[n]

\* What the subrequests from the k-th one on do to the log and the table.
RECURSIVE EffectOfSubrequests(_, _, _)
EffectOfSubrequests(acc, subrequests, k) ==
    IF k > Len(subrequests)
    THEN acc
    ELSE EffectOfSubrequests(
            TruncateOne(acc, subrequests[k].queue_id, subrequests[k].to_position_inclusive),
            subrequests, k + 1)

\* C18: a truncate subrequest to an Offset for a queue that the WAL does
\* not hold changes nothing; truncate returns Ok, and the WAL and the shard
\* table end as the subrequests before and after it leave them.
C18_MissingQueueIsSkipped ==
    [][\A n \in Nodes : \A request \in TruncateRequests(n) :
        (/\ Truncate(n, request.ingester_id, request.subrequests)
         /\ request.ingester_id = n) =>
            \A k \in 1..Len(request.subrequests) :
                LET subrequests == request.subrequests
                    before ==
                        EffectOfSubrequests([log |-> mrecordlog[n], table |-> shards[n]],
                                            SubSeq(subrequests, 1, k - 1), 1)
                    others ==
                        EffectOfSubrequests(before,
                                            SubSeq(subrequests, k + 1, Len(subrequests)), 1)
                IN  (/\ subrequests[k].to_position_inclusive.kind = "Offset"
                     /\ subrequests[k].queue_id \notin DOMAIN before.log) =>
                        /\ truncate_response'[n].kind = "ok"
                        /\ mrecordlog'[n] = others.log
                        /\ shards'[n] = others.table]_vars

\* After one persist call that wrote two records to q1, one truncate with
\* three subrequests has been applied on a node without the queue q2 of the
\* second one: the two records of q1 are gone.
C18_Witness ==
    \E n \in Nodes :
        /\ ops = 2
        /\ wal_order[n] = 1
        /\ truncate_response[n] = [kind |-> "ok", num_subrequests |-> 3]
        /\ "q2" \notin DOMAIN mrecordlog[n]
        /\ "q1" \in DOMAIN mrecordlog[n]
        /\ mrecordlog[n]["q1"] = [start |-> 2, recs |-> <<>>]

\* C16: a persist request whose leader_id is not the id of the node gets
\* the error Internal, and the call leaves the WAL, the shard table and
\* replication_streams as they were.
C16_MisroutedPersistChangesNothing ==
    [][\A c \in CallIds :
        (calls'[c].pc # "idle" /\ calls'[c].leader_id # calls'[c].node) =>
            /\ calls'[c].pc = "done"
            /\ calls'[c].response = InternalError
            /\ calls[c].pc = "idle" =>
                  /\ mrecordlog' = mrecordlog
                  /\ shards' = shards
                  /\ replication_streams' = replication_streams]_vars

\* A node that is up has answered a persist request for another leader.
C16_Witness ==
    \E c \in CallIds :
        /\ calls[c].pc = "done"
        /\ calls[c].node \in Nodes
        /\ ready[calls[c].node]
        /\ calls[c].leader_id \in Nodes \ {calls[c].node}
        /\ calls[c].response.kind = "internal"

\* The highest position that follower f has applied and acknowledged for
\* the queue q of leader l: the position of its replica shard.
AcknowledgedPosition(l, f, q) ==
    IF q \in DOMAIN shards[f] /\ shards[f][q].role = "Replica" /\ shards[f][q].peer = l
    THEN shards[f][q].position
    ELSE Beginning

\* C12, as claimed, in the states that other tasks can see (nobody holds
\* the state write-lock of the leader): the replication_position_inclusive
\* of a Primary shard is at most the highest to_position_inclusive that its
\* follower has acknowledged for the shard, and Beginning before any
\* acknowledgement.
C12_PrimaryPositionIsAcknowledged ==
    \A n \in Nodes : \A q \in DOMAIN shards[n] :
        (state_lock[n] = Unlocked /\ shards[n][q].role = "Primary") =>
            PositionLeq(shards[n][q].position,
                        AcknowledgedPosition(n, shards[n][q].peer, q))

\* C13, as claimed and read to its advantage (any return will do, not
\* only the error Timeout): a persist call that waits for the
\* acknowledgement of a replicate request eventually returns, even when the
\* acknowledgement never arrives.
C13_WaitingPersistReturns ==
    \A c \in CallIds : (calls[c].pc = "await") ~> (calls[c].pc = "done")

\* The number of replication tasks that follower f has spawned for the
\* leader l.
SpawnedFor(f, l) ==
    Cardinality({k \in 1..Len(spawned_tasks[f]) : spawned_tasks[f][k] = l})

\* C14: a follower never has more than one replication task for a leader
\* id, and replication_tasks has an entry for the leader exactly when the
\* task was spawned; an open_replication_stream for a leader that has a
\* task returns Internal, spawns no task and leaves replication_tasks as it
\* was.
C14_OneReplicationTaskPerLeader ==
    [][/\ \A f \in Nodes : \A l \in Nodes :
            /\ SpawnedFor(f, l)' <= 1
            /\ (l \in replication_tasks'[f]) <=> (SpawnedFor(f, l)' = 1)
       /\ \A n \in Nodes : \A message \in OpenMessages :
            (/\ OpenReplicationStream(n, message)
             /\ message.kind = "open"
             /\ message.follower_id = n
             /\ message.leader_id \in replication_tasks[n]) =>
                /\ open_result'[n].kind = "internal"
                /\ spawned_tasks' = spawned_tasks
                /\ replication_tasks' = replication_tasks]_vars

\* A follower with a replication task for a leader has refused a second
\* open_replication_stream for that leader.
C14_Witness ==
    \E n \in Nodes :
        /\ open_result[n].kind = "internal"
        /\ open_result[n].message.kind = "open"
        /\ open_result[n].message.follower_id = n
        /\ open_result[n].message.leader_id \in replication_tasks[n]
        /\ SpawnedFor(n, open_result[n].message.leader_id) = 1

\* C15: the first message that a follower puts on the ack stream of a
\* leader is the OpenResponse and every later one is the acknowledgement of
\* a replicate request; once open_replication_stream has returned Ok,
\* the OpenResponse has been sent and replication_tasks has an entry for
\* the leader of the Open message.
C15_OpenResponseComesFirst ==
    /\ \A l \in Nodes : \A f \in Nodes :
          \A k \in 1..Len(ack_sent[l][f]) :
              /\ (k = 1) <=> (ack_sent[l][f][k] = "open_response")
              /\ l \in replication_tasks[f]
    /\ \A n \in Nodes :
          open_result[n].kind = "ok" =>
              /\ open_result[n].message.leader_id \in replication_tasks[n]
              /\ ack_sent[open_result[n].message.leader_id][n] # <<>>

\* A follower has accepted a replication stream and has acknowledged a
\* replicate request on it after the OpenResponse.
C15_Witness ==
    \E l \in Nodes : \E f \in Nodes :
        /\ open_result[f] = [kind |-> "ok", message |-> OpenMessage(l, f)]
        /\ ack_sent[l][f] = <<"open_response", "replicate_response">>
        /\ l \in replication_tasks[f]

\* C19: an open_replication_stream whose Open message names another
\* follower, or whose syn stream ends before any message, returns Internal;
\* no task is spawned, replication_tasks is left as it was and nothing is
\* put on an ack stream.
C19_MisroutedOpenIsRefused ==
    [][\A n \in Nodes : \A message \in OpenMessages :
        (/\ OpenReplicationStream(n, message)
         /\ (message.kind = "none" \/ message.follower_id # n)) =>
            /\ open_result'[n] = [kind |-> "internal", message |-> message]
            /\ replication_tasks' = replication_tasks
            /\ spawned_tasks' = spawned_tasks
            /\ ack_sent' = ack_sent]_vars

\* One node has refused an Open message for another follower and one node
\* has refused a syn stream that ended at once; neither has a task.
C19_Witness ==
    \E n \in Nodes : \E other \in Nodes :
        /\ open_result[n].kind = "internal"
        /\ open_result[n].message.kind = "open"
        /\ open_result[n].message.follower_id # n
        /\ open_result[other] = [kind |-> "internal", message |-> NoMessage]
        /\ replication_tasks[n] = {}
        /\ replication_tasks[other] = {}

(* ------------------------------------------------------------------ *)
(* C20: the frames of a fetch stream                                    *)
(* ------------------------------------------------------------------ *)

\* The offsets that a record of a run can have.
FetchOffsets == 0..(3 * MaxOps)

\* The queue that the fetch stream reads holds a record at the offset.
FetchQueueHolds(offset) ==
    /\ fetch_stream.status = "open"
    /\ fetch_stream.queue_id \in DOMAIN mrecordlog[fetch_stream.node]
    /\ HoldsOffset(mrecordlog[fetch_stream.node][fetch_stream.queue_id], offset)

\* A frame of the stream has carried the record of the offset: a frame
\* carries the records of the offsets that end at its to_position_inclusive.
Delivered(offset) ==
    \E i \in 1..Len(fetch_stream.frames) :
        LET frame == fetch_stream.frames[i]
            to == frame.to_position_inclusive.offset
        IN  to - Len(frame.mrecord_batch) < offset /\ offset <= to

\* The frames of the stream are contiguous: the first one starts after
\* the position of the request, Beginning when it gives none, and each
\* later one starts where the one before it ends; every frame ends after
\* its start, at an offset.
FramesAreContiguous ==
    LET frames == fetch_stream.frames
        start == IF fetch_stream.requested = {}
                 THEN Beginning
                 ELSE Unwrap(fetch_stream.requested)
    IN  \A i \in 1..Len(frames) :
            /\ frames[i].from_position_exclusive =
                   IF i = 1 THEN start ELSE frames[i - 1].to_position_inclusive
            /\ frames[i].to_position_inclusive.kind = "Offset"
            /\ PositionLt(frames[i].from_position_exclusive, frames[i].to_position_inclusive)

\* A step that sends a frame sends the records that the log holds after
\* the frame's start and up to its end, in the order of their offsets, and
\* the frame does not end after the replication position of the shard.
FrameFollowsTheLog ==
    LET n == fetch_stream.node
        q == fetch_stream.queue_id
        frame == fetch_stream.frames'[Len(fetch_stream.frames')]
        to == frame.to_position_inclusive.offset
        batch == frame.mrecord_batch
        carried == {o \in FetchOffsets :
                        /\ HoldsOffset(mrecordlog[n][q], o)
                        /\ PositionLt(frame.from_position_exclusive, Offset(o))
                        /\ o <= to}
    IN  Len(fetch_stream.frames') > Len(fetch_stream.frames) =>
            /\ Len(fetch_stream.frames') = Len(fetch_stream.frames) + 1
            /\ q \in DOMAIN mrecordlog[n]
            /\ Len(batch) > 0
            /\ Cardinality(carried) = Len(batch)
            /\ \A i \in 1..Len(batch) :
                   /\ to - Len(batch) + i \in carried
                   /\ batch[i] = RecordAt(mrecordlog[n][q], to - Len(batch) + i)
            /\ q \in DOMAIN shards[n]
            /\ PositionLeq(frame.to_position_inclusive, shards[n][q].position)

\* The record at the offset was persisted to the queue after the stream
\* was opened.
PersistedAfterOpening(offset) ==
    FetchQueueHolds(offset) /\ offset >= fetch_stream.opened_at

C21_FetchOfMissingShardIsRefused ==
    [][\A n \in Nodes, request \in OpenFetchStreamRequests :
          (request.queue_id \notin DOMAIN shards[n] /\ OpenFetchStream(n, request)) =>
              /\ fetch_stream'.status = "internal"
              /\ fetch_stream'.node = None
              /\ fetch_stream'.frames = <<>>
              /\ UNCHANGED <<ready, mrecordlog, shards, replication_streams,
                             replication_tasks, connection, syn_stream, ack_stream,
                             state_lock, calls, ops, wal_order, submitted, sealed,
                             truncate_response, open_result, spawned_tasks, ack_sent>>]_vars

\* The leader had served a persist request to q1, a truncate to Eof has
\* removed the shard and its queue, and the fetch stream that the consumer
\* opened then was refused.
C21_Witness ==
    /\ fetch_stream.status = "internal"
    /\ \E n \in Leaders :
        /\ wal_order[n] = 1
        /\ truncate_response[n].kind = "ok"
        /\ "q1" \notin DOMAIN shards[n]
        /\ "q1" \notin DOMAIN mrecordlog[n]

(* ------------------------------------------------------------------ *)
(* C22: a shard creation whose replication stream cannot be opened      *)
(* ------------------------------------------------------------------ *)

\* The step of persist call c creates a shard for the queue id with a
\* follower, and the opening of the replication stream to the follower
\* fails: the follower is not in the pool, or it refuses the stream.
FailedShardCreation(c, queue_id) ==
    LET n == calls[c].node
    IN  \/ /\ calls[c].pc = "open"
           /\ calls[c].current.queue_id = queue_id
           /\ PersistOpenStream(c)
           /\ calls'[c].response = Panicked
        \/ /\ calls[c].pc = "loop"
           /\ queue_id \notin DOMAIN shards[n]
           /\ queue_id \notin DOMAIN mrecordlog[n]
           /\ \E follower_id \in Outsiders :
                 /\ follower_id \notin DOMAIN replication_streams[n]
                 /\ PersistSubrequest(c, queue_id, follower_id)

\* C22: when persist creates a shard for a subrequest that names a
\* follower and the opening of the replication stream to the follower
\* fails, the log holds no queue for the shard afterwards and the shard
\* table holds no shard for it.
C22_FailedCreationLeavesNoQueue ==
    [][\A c \in CallIds, queue_id \in QueueIds :
          FailedShardCreation(c, queue_id) =>
              /\ queue_id \notin DOMAIN mrecordlog'[calls[c].node]
              /\ queue_id \notin DOMAIN shards'[calls[c].node]]_vars

\* The part of C22 that the code keeps: no shard is inserted.
C22_FailedCreationInsertsNoShard ==
    [][\A c \in CallIds, queue_id \in QueueIds :
          FailedShardCreation(c, queue_id) =>
              queue_id \notin DOMAIN shards'[calls[c].node]]_vars

(* ------------------------------------------------------------------ *)
(* C23: create_queue and the gate of the shard table                    *)
(* ------------------------------------------------------------------ *)

\* C23: whenever a turn of the loop of persist finds no shard for the
\* queue id in the shard table, and so creates the shard, the log holds no
\* queue with that id: create_queue never returns AlreadyExists.
C23_NoQueueWithoutShard ==
    [][\A c \in CallIds, queue_id \in QueueIds,
          follower_id \in Nodes \cup Outsiders \cup {None} :
          (/\ calls[c].pc = "loop"
           /\ queue_id \notin DOMAIN shards[calls[c].node]
           /\ PersistSubrequest(c, queue_id, follower_id)) =>
              queue_id \notin DOMAIN mrecordlog[calls[c].node]]_vars

(* ------------------------------------------------------------------ *)
(* C24: the lock while a persist call waits for the followers           *)
(* ------------------------------------------------------------------ *)

\* C24: a persist call that waits for the acknowledgement of a replicate
\* request does not hold the state write-lock of its node.
C24_NoLockWhileWaiting ==
    \A c \in CallIds : calls[c].pc = "await" => state_lock[calls[c].node] # c

\* A persist call waits for its follower while another persist call of
\* the same node holds the state write-lock.
C24_Witness ==
    \E c \in CallIds, d \in CallIds :
        /\ c # d
        /\ calls[c].pc = "await"
        /\ calls[c].replicate_futures # EmptyMap
        /\ calls[d].node = calls[c].node
        /\ state_lock[calls[c].node] = d

(* ------------------------------------------------------------------ *)
(* C25: an I/O error of the log inside persist                          *)
(* ------------------------------------------------------------------ *)

\* C25: when the append of a subrequest fails with an I/O error, the shard
\* is closed, the call goes on with its loop and holds a ShardClosed
\* failure for the queue id of the subrequest.
C25_IoErrorClosesTheShard ==
    [][\A c \in CallIds, queue_id \in QueueIds :
          PersistAppendIoError(c, queue_id) =>
              /\ is_closed(shards'[calls[c].node][queue_id])
              /\ calls'[c].pc = "loop"
              /\ \E i \in 1..Len(calls'[c].persist_failures) :
                    /\ calls'[c].persist_failures[i].queue_id = queue_id
                    /\ calls'[c].persist_failures[i].reason = "ShardClosed"]_vars

(* ------------------------------------------------------------------ *)
(* C26: the chain of the replicate subrequests of a shard               *)
(* ------------------------------------------------------------------ *)

\* The subrequests of the first k requests of a sequence, in order.
RECURSIVE SubrequestsOf(_, _)
SubrequestsOf(requests, k) ==
    IF k = 0 THEN <<>> ELSE SubrequestsOf(requests, k - 1) \o requests[k].subrequests

\* The replicate subrequests for a queue id that leader l has emitted to
\* follower f, in the order of their submission.
ReplicateChain(l, f, queue_id) ==
    SelectSeq(SubrequestsOf(submitted[l][f], Len(submitted[l][f])),
              LAMBDA sub : sub.queue_id = queue_id)

\* C26: the replicate subrequests that a leader emits for a shard form a
\* chain: the first one starts at Beginning and each later one starts at
\* the to_position_inclusive of the one before.
C26_ReplicateSubrequestsFormAChain ==
    \A l \in Nodes, f \in Nodes, queue_id \in QueueIds :
        LET chain == ReplicateChain(l, f, queue_id)
        IN  \A i \in 1..Len(chain) :
                chain[i].from_position_exclusive =
                    IF i = 1 THEN Beginning ELSE chain[i - 1].to_position_inclusive

\* The consequence that C26 draws: the replication task of a follower never
\* finds a subrequest whose from_position_exclusive differs from the
\* position of its replica shard, and so never ends its stream.
C26_FollowerCheckNeverFails ==
    [][\A l \in Nodes, f \in Nodes :
          ReplicationTaskStep(l, f) => connection'[l][f] = "open"]_vars

(* ------------------------------------------------------------------ *)
(* C27: the role of a shard                                             *)
(* ------------------------------------------------------------------ *)

\* The step keeps the role of every shard that is in the table of node n
\* before and after it: Solo, Primary with its follower id, Replica with
\* its leader id.
RolesKept(n) ==
    \A queue_id \in DOMAIN shards[n] \cap DOMAIN shards'[n] :
        /\ shards'[n][queue_id].role = shards[n][queue_id].role
        /\ shards'[n][queue_id].peer = shards[n][queue_id].peer

TruncateToEof(n, queue_id) ==
    \E request \in TruncateRequests(n) :
        /\ Truncate(n, request.ingester_id, request.subrequests)
        /\ TruncateResult(n, request.ingester_id) = "ok"
        /\ \E k \in 1..Len(request.subrequests) :
              request.subrequests[k] =
                  [queue_id |-> queue_id, to_position_inclusive |-> Eof]

Occurrences(entries, subrequest_id) ==
    Cardinality({i \in 1..Len(entries) : entries[i].subrequest_id = subrequest_id})

\* C29: every subrequest id of a persist request that returns Ok is in the
\* response exactly once, among the successes or among the failures.
C29_EverySubrequestIsAnswered ==
    \A c \in CallIds :
        (calls[c].pc = "done" /\ calls[c].response.kind = "ok") =>
            \A i \in 1..Len(calls[c].subrequests) :
                Occurrences(calls[c].response.successes,
                            calls[c].subrequests[i].subrequest_id)
                  + Occurrences(calls[c].response.failures,
                                calls[c].subrequests[i].subrequest_id) = 1

(* ------------------------------------------------------------------ *)
(* C30: two ingesters that open a replication stream with each other    *)
(* ------------------------------------------------------------------ *)

\* Persist call c holds the write-lock of its node and waits, in the
\* opening of its replication stream, for the write-lock of its follower,
\* which persist call d holds.
WaitsForLockOf(c, d) ==
    /\ calls[c].pc = "open"
    /\ state_lock[calls[c].node] = c
    /\ calls[d].pc \in {"loop", "open"}
    /\ calls[c].current.follower_id = calls[d].node
    /\ state_lock[calls[d].node] = d

\* C30, the state that must not be reached: two persist calls, on two
\* ingesters, each holding the write-lock of its node and waiting for the
\* write-lock of the other's.
C30_NoMutualWait ==
    \A c \in CallIds, d \in CallIds :
        ~(c # d /\ WaitsForLockOf(c, d) /\ WaitsForLockOf(d, c))

\* C30, the progress: under fair scheduling a persist call that opens a
\* replication stream eventually returns.
C30_OpeningPersistReturns ==
    \A c \in CallIds : (calls[c].pc = "open") ~> (calls[c].pc = "done")

(* ------------------------------------------------------------------ *)
(* C31: the shard table and the queues of the log                       *)
(* ------------------------------------------------------------------ *)

\* C31: whenever the state lock of a started ingester is free, the queue
\* ids of its shard table are the queue ids of its log.
C31_ShardsMatchQueues ==
    \A n \in Nodes :
        (ready[n] /\ state_lock[n] = Unlocked) =>
            DOMAIN shards[n] = list_queues(mrecordlog[n])

\* The half of C31 that the code keeps: every shard has its queue.
C31_EveryShardHasItsQueue ==
    \A n \in Nodes :
        (ready[n] /\ state_lock[n] = Unlocked) =>
            DOMAIN shards[n] \subseteq list_queues(mrecordlog[n])

(* C32: the follower groups of persist and the replication streams *)
\* C32: whenever persist reaches the end of its loop with groups of
\* replicate subrequests, every follower of a group has a replication
\* stream registered on the leader, so the lookup of the stream succeeds.
C32_GroupStreamIsRegistered ==
    [][\A c \in CallIds :
          (calls[c].pc = "loop" /\ PersistSubmit(c)) =>
              GroupFollowers(calls[c]) \subseteq
                  DOMAIN replication_streams[calls[c].node]]_vars

\* The second half of C32: while a persist call holds the lock, every
\* replicate subrequest that it has grouped under a follower targets a
\* shard that is Primary for that follower.
C32_ReplicatedOnlyOnPrimary ==
    \A c \in CallIds :
        calls[c].pc = "loop" =>
            \A f \in GroupFollowers(calls[c]) :
                \A k \in 1..Len(calls[c].replicate_subrequests[f]) :
                    LET queue_id == calls[c].replicate_subrequests[f][k].queue_id
                        shard == shards[calls[c].node][queue_id]
                    IN  shard.role = "Primary" /\ shard.peer = f

(* C33: the position of an open shard and the tail of its queue *)
\* The position that the tail of a queue stands for: Beginning when no
\* offset was ever assigned, else the offset of the last record appended.
TailPosition(queue) == PositionFromOption(current_position(queue))

\* C33: whenever the state lock of a node is free, the replication position
\* of every Open shard of the node is the tail of its queue in the log:
\* Beginning if nothing was ever appended, otherwise the offset of the last
\* record appended, truncated or not.
C33_OpenShardIsAtTheTail ==
    \A n \in Nodes :
        state_lock[n] = Unlocked =>
            \A queue_id \in DOMAIN shards[n] :
                (shards[n][queue_id].state = "Open" /\ queue_id \in DOMAIN mrecordlog[n]) =>
                    shards[n][queue_id].position = TailPosition(mrecordlog[n][queue_id])

(* C34: one replication stream per follower *)
\* C34: when persist creates a shard with a follower that the leader has a
\* replication stream with, the shard is Primary for that follower, the
\* stream handle of the leader is the one it was, no Open message reaches
\* the follower and no stream task is spawned there; every follower has
\* spawned at most one task per leader; and a request submitted on a stream
\* takes the sequence number that follows the ones submitted before.
C34_SecondShardReusesTheStream ==
    [][/\ \A c \in CallIds, queue_id \in QueueIds, f \in Nodes :
            (/\ calls[c].pc = "loop"
             /\ f \in DOMAIN replication_streams[calls[c].node]
             /\ queue_id \notin DOMAIN shards[calls[c].node]
             /\ queue_id \notin DOMAIN mrecordlog[calls[c].node]
             /\ PersistSubrequest(c, queue_id, f)) =>
                LET n == calls[c].node
                IN  /\ queue_id \in DOMAIN shards'[n]
                    /\ shards'[n][queue_id].role = "Primary"
                    /\ shards'[n][queue_id].peer = f
                    /\ calls'[c].pc = "loop"
                    /\ replication_streams' = replication_streams
                    /\ replication_tasks' = replication_tasks
                    /\ spawned_tasks' = spawned_tasks
                    /\ ack_sent' = ack_sent
                    /\ open_result' = open_result
       /\ \A f \in Nodes, l \in Nodes :
            Cardinality({k \in 1..Len(spawned_tasks'[f]) : spawned_tasks'[f][k] = l}) <= 1
       /\ \A l \in Nodes, f \in Nodes :
            Len(submitted'[l][f]) > Len(submitted[l][f]) =>
                /\ Len(submitted'[l][f]) = Len(submitted[l][f]) + 1
                /\ submitted'[l][f][Len(submitted'[l][f])].replication_seqno =
                       Len(submitted[l][f])]_vars

\* A leader holds two shards that are Primary for the same follower, the
\* second one created after the stream was opened; the follower has spawned
\* one stream task, and the stream has carried a request for each shard,
\* numbered 0 and 1.
C34_Witness ==
    \E l \in Nodes, f \in Nodes :
        /\ {"q1", "q2"} \subseteq DOMAIN shards[l]
        /\ \A q \in {"q1", "q2"} : shards[l][q].role = "Primary" /\ shards[l][q].peer = f
        /\ spawned_tasks[f] = <<l>>
        /\ Len(submitted[l][f]) = 2
        /\ submitted[l][f][1].replication_seqno = 0
        /\ submitted[l][f][2].replication_seqno = 1
        /\ submitted[l][f][1].subrequests[1].queue_id # submitted[l][f][2].subrequests[1].queue_id
====
